---- MODULE Spec2Model ----
(***************************************************************************)
(* Model of mssql_mcp_server/server.py: the identifier sanitizer           *)
(* (validate_table_name), the statement classifier (is_select_query), the  *)
(* process-wide connection manager (DBConnection.get_connection) and the   *)
(* three request handlers (list_resources, read_resource, call_tool).      *)
(*                                                                         *)
(* Python strings that the code inspects character by character are        *)
(* modelled as sequences of one-character strings; texts that are only     *)
(* built and returned are TLA+ strings.                                    *)
(***************************************************************************)
EXTENDS Integers, Sequences, FiniteSets, TLC

VARIABLES
    table_name, \* SpecSan: argument of validate_table_name
    sanOut,     \* SpecSan: its outcome
    query,      \* SpecCls: argument of is_select_query
    clsOut,     \* SpecCls: its outcome
    env,        \* process environment: are the credentials usable
    _conn,      \* DBConnection._conn: 0 is None, else a handle id
    status,     \* engine side: state of every handle ever opened
    pending,    \* engine side: requests whose changes sit uncommitted on a handle
    reqNo,      \* number of requests served
    last        \* observations of the last request

vars == <<table_name, sanOut, query, clsOut, env, _conn, status, pending, reqNo, last>>

----------------------------------------------------------------------------
(* Python string primitives on sequences of characters *)

Lower == <<"s", "e", "l", "c", "t", "x", "i", "n", "f", "o", "r", "m", "a", "h", "b", "d", "u">>
UpperOf == <<"S", "E", "L", "C", "T", "X", "I", "N", "F", "O", "R", "M", "A", "H", "B", "D", "U">>

\* str.upper() of one character
upper(c) ==
    IF \E i \in 1..Len(Lower) : Lower[i] = c
    THEN UpperOf[CHOOSE i \in 1..Len(Lower) : Lower[i] = c]
    ELSE c

\* str.upper()
Upper(s) == [i \in 1..Len(s) |-> upper(s[i])]

\* s[i:] with a 1-based i
From(s, i) == SubSeq(s, i, Len(s))

\* s.startswith(p)
StartsWith(s, p) == Len(s) >= Len(p) /\ SubSeq(s, 1, Len(p)) = p

\* s.find(p): the 1-based index of the first occurrence, 0 for Python's -1
Find(s, p) ==
    LET hits == {i \in 1..(Len(s) - Len(p) + 1) : SubSeq(s, i, i + Len(p) - 1) = p}
    IN IF hits = {} THEN 0 ELSE CHOOSE i \in hits : \A j \in hits : i <= j

\* p in s
Contains(s, p) == Len(p) = 0 \/ Find(s, p) # 0

\* s.split(c) for a one-character separator
RECURSIVE Split(_, _)
Split(s, c) ==
    LET k == Find(s, <<c>>)
    IN IF k = 0 THEN <<s>>
       ELSE <<SubSeq(s, 1, k - 1)>> \o Split(From(s, k + 1), c)

\* sep.join(parts)
RECURSIVE JoinChars(_, _)
JoinChars(parts, sep) ==
    IF Len(parts) = 0 THEN <<>>
    ELSE IF Len(parts) = 1 THEN parts[1]
    ELSE parts[1] \o sep \o JoinChars(Tail(parts), sep)

\* the characters str.strip() and str.split() treat as whitespace
Whitespace == {" ", "\n", "\t"}

\* s.strip()
RECURSIVE lstrip(_)
lstrip(s) == IF Len(s) > 0 /\ s[1] \in Whitespace THEN lstrip(Tail(s)) ELSE s
RECURSIVE rstrip(_)
rstrip(s) ==
    IF Len(s) > 0 /\ s[Len(s)] \in Whitespace THEN rstrip(SubSeq(s, 1, Len(s) - 1)) ELSE s
strip(s) == rstrip(lstrip(s))

\* s.split()[0] of a stripped, non-empty s
FirstWord(s) ==
    LET ws == {i \in 1..Len(s) : s[i] \in Whitespace}
    IN IF ws = {} THEN s
       ELSE SubSeq(s, 1, (CHOOSE i \in ws : \A j \in ws : i <= j) - 1)

----------------------------------------------------------------------------
(* validate_table_name *)

WordChars == {"a", "b", "d", "o", "_", "1", "U", "s", "e", "r"}

IsWord(s) == Len(s) > 0 /\ \A i \in 1..Len(s) : s[i] \in WordChars

\* ^[a-zA-Z0-9_]+(\.[a-zA-Z0-9_]+)?$ on exactly the characters of s
FullPattern(s) ==
    \/ IsWord(s)
    \/ \E k \in 1..Len(s) :
          /\ s[k] = "."
          /\ IsWord(SubSeq(s, 1, k - 1))
          /\ IsWord(From(s, k + 1))

\* re.match with that pattern: Python's $ matches at the end of the string and
\* also just before a newline that ends the string
ReMatchTable(s) ==
    \/ FullPattern(s)
    \/ Len(s) > 0 /\ s[Len(s)] = "\n" /\ FullPattern(SubSeq(s, 1, Len(s) - 1))

\* the result is the escaped text, or the ValueError
validate_table_name(t) ==
    IF ~ReMatchTable(t)
    THEN [raised |-> TRUE, value |-> <<>>]
    ELSE LET parts == Split(t, ".")
         IN IF Len(parts) = 2
            THEN [raised |-> FALSE,
                  value |-> <<"[">> \o parts[1] \o <<"]", ".", "[">> \o parts[2] \o <<"]">>]
            ELSE [raised |-> FALSE, value |-> <<"[">> \o t \o <<"]">>]

----------------------------------------------------------------------------
(* is_select_query *)

\* re.sub(r'/\*.*?\*/', '', q, flags=re.DOTALL): leftmost, non-greedy,
\* non-overlapping matches are removed; the dot also matches a newline
RECURSIVE SubBlockComments(_)
SubBlockComments(q) ==
    IF Len(q) = 0 THEN <<>>
    ELSE IF StartsWith(q, <<"/", "*">>) /\ Find(From(q, 3), <<"*", "/">>) # 0
         THEN SubBlockComments(From(q, 3 + Find(From(q, 3), <<"*", "/">>) + 1))
         ELSE <<q[1]>> \o SubBlockComments(Tail(q))

\* the loop body: cut the line at its first "--"
CutLineComment(line) ==
    LET comment_pos == Find(line, <<"-", "-">>)
    IN IF comment_pos # 0 THEN SubSeq(line, 1, comment_pos - 1) ELSE line

\* the text is_select_query takes the first word of
query_cleaned(q) ==
    LET lines == Split(SubBlockComments(q), "\n")
        cleaned_lines == [i \in 1..Len(lines) |-> CutLineComment(lines[i])]
    IN JoinChars(cleaned_lines, <<"\n">>)

first_word(q) ==
    IF strip(query_cleaned(q)) # <<>> THEN FirstWord(strip(query_cleaned(q))) ELSE <<>>

is_select_query(q) == Upper(first_word(q)) = <<"S", "E", "L", "E", "C", "T">>

----------------------------------------------------------------------------
(* Inputs of the two pure functions *)

MaxIdLen == 3
MaxPieces == 6

IdAlphabet == {"a", "_", "1", ".", "\n", " ", ";", "["}

RECURSIVE Strings(_, _)
Strings(alphabet, n) ==
    IF n = 0 THEN {<<>>}
    ELSE Strings(alphabet, n - 1) \cup
         {Append(s, c) : s \in Strings(alphabet, n - 1), c \in alphabet}

StmtPieces ==
    { <<"S", "E", "L", "E", "C", "T">>, <<"s", "e", "L", "e", "c", "t">>,
      <<" ">>, <<"\n">>, <<"/", "*">>, <<"*", "/">>, <<"-", "-">> }

RECURSIVE Statements(_)
Statements(n) ==
    IF n = 0 THEN {<<>>}
    ELSE Statements(n - 1) \cup {s \o p : s \in Statements(n - 1), p \in StmtPieces}

NotRun == [ran |-> FALSE]

Idle == [op |-> "none"]

\* the connection manager and the handlers stay in their initial state
ServerInit ==
    /\ _conn = 0
    /\ status = <<>>
    /\ pending = <<>>
    /\ reqNo = 0
    /\ last = Idle

pureVars == <<table_name, sanOut, query, clsOut>>
serverVars == <<env, _conn, status, pending, reqNo, last>>

----------------------------------------------------------------------------
(* SpecSan: validate_table_name applied to every bounded identifier *)

InitSan ==
    /\ table_name \in Strings(IdAlphabet, MaxIdLen)
    /\ sanOut = NotRun
    /\ query = <<>> /\ clsOut = NotRun
    /\ env = TRUE
    /\ ServerInit

Sanitize ==
    /\ ~sanOut.ran
    /\ sanOut' = [ran |-> TRUE, result |-> validate_table_name(table_name)]
    /\ UNCHANGED <<table_name, query, clsOut, serverVars>>

SpecSan == InitSan /\ [][Sanitize]_vars

----------------------------------------------------------------------------
(* SpecCls: is_select_query applied to every bounded statement *)

InitCls ==
    /\ query \in Statements(MaxPieces)
    /\ clsOut = NotRun
    /\ table_name = <<>> /\ sanOut = NotRun
    /\ env = TRUE
    /\ ServerInit

Classify ==
    /\ ~clsOut.ran
    /\ clsOut' = [ran |-> TRUE, select |-> is_select_query(query),
                  cleaned |-> query_cleaned(query)]
    /\ UNCHANGED <<table_name, sanOut, query, serverVars>>

SpecCls == InitCls /\ [][Classify]_vars

----------------------------------------------------------------------------
(* The engine as the handlers see it *)

MaxRequests == 4

Cell(t, i, s) == [t |-> t, i |-> i, s |-> s]

\* str(cell)
str(c) == IF c.t = "int" THEN ToString(c.i) ELSE IF c.t = "null" THEN "None" ELSE c.s

\* sep.join(items) on texts
RECURSIVE Join(_, _)
Join(items, sep) ==
    IF Len(items) = 0 THEN ""
    ELSE IF Len(items) = 1 THEN items[1]
    ELSE items[1] \o sep \o Join(Tail(items), sep)

\* what cursor.execute leaves on the cursor: description (<<>> for None, when
\* the statement yields no result set), the rows, rowcount, and whether the
\* statement changed data inside the handle's open transaction
Reply(ok, description, rows, rowcount, changes) ==
    [ok |-> ok, description |-> description, rows |-> rows, rowcount |-> rowcount,
     changes |-> changes]

ExecuteFails == Reply(FALSE, <<>>, <<>>, -1, FALSE)

UsersRows ==
    { Reply(TRUE, <<"Id", "Name">>,
            << <<Cell("int", 1, ""), Cell("str", 0, "Alice")>>,
               <<Cell("int", 2, ""), Cell("str", 0, "Bob")>> >>, -1, FALSE),
      Reply(TRUE, <<"Id", "Name">>, << <<Cell("int", 1, ""), Cell("null", 0, "")>> >>, -1, FALSE),
      Reply(TRUE, <<"Id", "Name">>, <<>>, -1, FALSE) }

TablesRows ==
    { Reply(TRUE, <<"TABLE_SCHEMA", "TABLE_NAME">>,
            << <<Cell("str", 0, "dbo"), Cell("str", 0, "Users")>>,
               <<Cell("str", 0, "dbo"), Cell("str", 0, "Orders")>> >>, -1, FALSE) }

\* the statements a caller submits, each with what the engine may answer
\* "SELECT * FROM Users"
qSelect ==
    [text |-> <<"S", "E", "L", "E", "C", "T", " ", "*", " ", "F", "R", "O", "M", " ",
                "U", "s", "e", "r", "s">>,
     replies |-> UsersRows \cup {ExecuteFails}]
\* "DELETE FROM Users WHERE Id=1"
qDelete ==
    [text |-> <<"D", "E", "L", "E", "T", "E", " ", "F", "R", "O", "M", " ", "U", "s", "e",
                "r", "s", " ", "W", "H", "E", "R", "E", " ", "I", "d", "=", "1">>,
     replies |-> {Reply(TRUE, <<>>, <<>>, 1, TRUE), Reply(TRUE, <<>>, <<>>, 0, FALSE),
                  ExecuteFails}]
\* "select * into T2 from Users": creates and fills T2, yields no result set
qSelectInto ==
    [text |-> <<"s", "e", "l", "e", "c", "t", " ", "*", " ", "i", "n", "t", "o", " ", "T",
                "2", " ", "f", "r", "o", "m", " ", "U", "s", "e", "r", "s">>,
     replies |-> {Reply(TRUE, <<>>, <<>>, 2, TRUE), ExecuteFails}]
\* "select * from information_schema.tables"
qTables ==
    [text |-> <<"s", "e", "l", "e", "c", "t", " ", "*", " ", "f", "r", "o", "m", " ", "i",
                "n", "f", "o", "r", "m", "a", "t", "i", "o", "n", "_", "s", "c", "h", "e",
                "m", "a", ".", "t", "a", "b", "l", "e", "s">>,
     replies |-> TablesRows]
\* ""
qEmpty == [text |-> <<>>, replies |-> {ExecuteFails}]

Queries == {qSelect, qDelete, qSelectInto, qTables, qEmpty}

\* the resource URIs a caller reads
\* "mssql://Users/data", "mssql://dbo.Users/data", "mssql://a;b/data", "http://Users/data"
Uris ==
    { <<"m", "s", "s", "q", "l", ":", "/", "/", "U", "s", "e", "r", "s", "/", "d", "a", "t", "a">>,
      <<"m", "s", "s", "q", "l", ":", "/", "/", "d", "b", "o", ".", "U", "s", "e", "r", "s",
        "/", "d", "a", "t", "a">>,
      <<"m", "s", "s", "q", "l", ":", "/", "/", "a", ";", "b", "/", "d", "a", "t", "a">>,
      <<"h", "t", "t", "p", ":", "/", "/", "U", "s", "e", "r", "s", "/", "d", "a", "t", "a">> }

ToolNames == {"execute_sql", "drop_everything"}

\* get_command() with MSSQL_COMMAND unset
get_command == "execute_sql"

----------------------------------------------------------------------------
(* DBConnection.get_connection *)

\* get_connection_string: env says whether trusted authentication is on or
\* both user and password are set
get_connection_string ==
    IF env THEN [raised |-> FALSE, msg |-> ""]
    ELSE [raised |-> TRUE,
          msg |-> "MSSQL_USER and MSSQL_PASSWORD are required for SQL Authentication"]

Acquired(raised, msg, conn, st, pd, calls) ==
    [called |-> TRUE, raised |-> raised, msg |-> msg, conn |-> conn, status |-> st,
     pending |-> pd, calls |-> calls]

\* cls._conn = pyodbc.connect(conn_str): a new handle is stored on success; on
\* failure the assignment does not happen
Connect(stored, st, pd, calls, connectOk) ==
    IF connectOk
    THEN Acquired(FALSE, "", Len(st) + 1, Append(st, "open"), Append(pd, {}),
                  Append(calls, "connect:ok"))
    ELSE Acquired(TRUE, "connection failed", stored, st, pd, Append(calls, "connect:fail"))

\* a probe that only asks whether a handle is stored
ProbeOk_StoredOnly(h, probeFails) == TRUE

\* a probe that never succeeds, so that every call reconnects
ProbeOk_Never(h, probeFails) == FALSE

\* the probe: cursor(), execute("SELECT 1"), fetchall(), close() on the stored
\* handle; it cannot succeed on a handle that is dropped or closed
ProbeOk(h, probeFails) == status[h] = "open" /\ ~probeFails

\* the stale handle is left as it is
CloseStale_Skipped(h) == [status |-> status, pending |-> pending, call |-> "close:fail"]

\* cls._conn.close() inside try/except-pass: the handle is released and what
\* was uncommitted on it is rolled back; closing a closed handle raises, and
\* the error is swallowed
CloseStale(h) ==
    [status |-> [status EXCEPT ![h] = "closed"],
     pending |-> [pending EXCEPT ![h] = {}],
     call |-> IF status[h] = "closed" THEN "close:fail" ELSE "close:ok"]

get_connection(probeFails, connectOk) ==
    IF get_connection_string.raised
    THEN Acquired(TRUE, get_connection_string.msg, _conn, status, pending, <<>>)
    ELSE IF _conn = 0
    THEN Connect(_conn, status, pending, <<>>, connectOk)
    ELSE IF ProbeOk(_conn, probeFails)
    THEN Acquired(FALSE, "", _conn, status, pending, <<"probe:ok">>)
    ELSE LET closed == CloseStale(_conn)
         IN Connect(_conn, closed.status, closed.pending, <<"probe:fail", closed.call>>,
                    connectOk)

----------------------------------------------------------------------------
(* The handlers *)

\* what a handler leaves behind: raised tells whether it raised to the
\* dispatch layer, text is the returned text or the exception's message,
\* failedAt the step that failed, calls the engine round-trips in order
Outcome(op, raised, text, failedAt, acq, calls, select, reply) ==
    [op |-> op, raised |-> raised, text |-> text, failedAt |-> failedAt,
     acquire |-> [called |-> acq.called, raised |-> acq.raised, calls |-> acq.calls,
                  handle |-> acq.conn],
     conn |-> acq.conn, status |-> acq.status, pending |-> acq.pending,
     calls |-> calls, select |-> select, reply |-> reply]

\* no call of get_connection was made
NotAcquired == [Acquired(FALSE, "", _conn, status, pending, <<>>) EXCEPT !.called = FALSE]

\* the request's changes join the handle's open transaction
Executed(acq, reply) ==
    IF reply.changes
    THEN [acq EXCEPT !.pending[acq.conn] = @ \cup {reqNo + 1}]
    ELSE acq

\* conn.commit(): everything uncommitted on the handle becomes durable
Committed(acq) == [acq EXCEPT !.pending[acq.conn] = {}]

\* cursor.execute(statement) succeeds only on a live handle
ExecuteOk(acq, reply) == reply.ok /\ acq.status[acq.conn] = "open"

\* only the first cell of each row is kept
FormatRows_FirstCell(rows) == [i \in 1..Len(rows) |-> str(rows[i][1])]

\* [",".join(map(str, row)) for row in rows]
FormatRows(rows) == [i \in 1..Len(rows) |-> Join([j \in 1..Len(rows[i]) |-> str(rows[i][j])], ",")]

\* "\n".join([",".join(columns)] + result)
FormatRowSet(columns, rows) == Join(<<Join(columns, ",")>> \o FormatRows(rows), "\n")

\* the exception is raised again instead of being returned
CallToolExcept_Reraises(failedAt, msg, acq, calls, select, reply) ==
    Outcome("call_tool", TRUE, msg, failedAt, acq, calls, select, reply)

\* except Exception as e: return [TextContent(text=f"Error executing query: {str(e)}")]
CallToolExcept(failedAt, msg, acq, calls, select, reply) ==
    Outcome("call_tool", FALSE, "Error executing query: " \o msg, failedAt, acq, calls,
            select, reply)

INFORMATION_SCHEMA_TABLES ==
    <<"I", "N", "F", "O", "R", "M", "A", "T", "I", "O", "N", "_", "S", "C", "H", "E", "M",
      "A", ".", "T", "A", "B", "L", "E", "S">>

\* the branch for table listings: "Tables_found" and the first cell of every
\* row, joined unconverted
TableListing(acq, calls, reply, fetchOk) ==
    IF ~fetchOk \/ Len(reply.description) = 0
    THEN CallToolExcept("fetch", "fetch failed", acq, Append(calls, "fetch:fail"), TRUE, reply)
    ELSE IF \E i \in 1..Len(reply.rows) : reply.rows[i][1].t # "str"
    THEN CallToolExcept("format", "sequence item: expected str instance", acq,
                        Append(calls, "fetch:ok"), TRUE, reply)
    ELSE Outcome("call_tool", FALSE,
                 Join(<<"Tables_found">> \o [i \in 1..Len(reply.rows) |-> reply.rows[i][1].s], "\n"),
                 "none", acq, Append(calls, "fetch:ok"), TRUE, reply)

\* the branch for any other SELECT
RegularSelect(acq, calls, reply, fetchOk) ==
    IF Len(reply.description) = 0
    THEN CallToolExcept("fetch", "'NoneType' object is not iterable", acq, calls, TRUE, reply)
    ELSE IF ~fetchOk
    THEN CallToolExcept("fetch", "fetch failed", acq, Append(calls, "fetch:fail"), TRUE, reply)
    ELSE Outcome("call_tool", FALSE, FormatRowSet(reply.description, reply.rows), "none",
                 acq, Append(calls, "fetch:ok"), TRUE, reply)

\* the answer is given without the commit
NonSelect_NoCommit(acq, calls, reply, commitOk) ==
    Outcome("call_tool", FALSE,
            "Query executed successfully. Rows affected: " \o ToString(reply.rowcount),
            "none", acq, calls, FALSE, reply)

\* the branch for every other statement
NonSelect(acq, calls, reply, commitOk) ==
    IF ~commitOk
    THEN CallToolExcept("commit", "commit failed", acq, Append(calls, "commit:fail"), FALSE,
                        reply)
    ELSE Outcome("call_tool", FALSE,
                 "Query executed successfully. Rows affected: " \o ToString(reply.rowcount),
                 "none", Committed(acq), Append(calls, "commit:ok"), FALSE, reply)

\* is_select_query(query) and "INFORMATION_SCHEMA.TABLES" in query.upper(),
\* evaluated once for each statement of Queries
Classified ==
    [t \in {q.text : q \in Queries} |->
        [select |-> is_select_query(t),
         listing |-> Contains(Upper(t), INFORMATION_SCHEMA_TABLES)]]

\* the try block of call_tool from cursor.execute on
CallToolBody(q, acq, reply, fetchOk, commitOk) ==
    IF ~ExecuteOk(acq, reply)
    THEN CallToolExcept("execute", "execute failed", acq, Append(acq.calls, "execute:fail"),
                        Classified[q.text].select, ExecuteFails)
    ELSE IF Classified[q.text].select /\ Classified[q.text].listing
    THEN TableListing(Executed(acq, reply), Append(acq.calls, "execute:ok"), reply, fetchOk)
    ELSE IF Classified[q.text].select
    THEN RegularSelect(Executed(acq, reply), Append(acq.calls, "execute:ok"), reply, fetchOk)
    ELSE NonSelect(Executed(acq, reply), Append(acq.calls, "execute:ok"), reply, commitOk)

call_tool(name, q, probeFails, connectOk, reply, fetchOk, commitOk) ==
    IF name # get_command
    THEN Outcome("call_tool", TRUE, "Unknown tool: " \o name, "validate", NotAcquired, <<>>,
                 FALSE, ExecuteFails)
    ELSE IF q.text = <<>>
    THEN Outcome("call_tool", TRUE, "Query is required", "validate", NotAcquired, <<>>,
                 FALSE, ExecuteFails)
    ELSE LET acq == get_connection(probeFails, connectOk)
         IN IF acq.raised
            THEN CallToolExcept("acquire", acq.msg, acq, acq.calls, Classified[q.text].select,
                                ExecuteFails)
            ELSE CallToolBody(q, acq, reply, fetchOk, commitOk)

\* uri_str[8:].split('/')[0]
TableOf(uri) == Split(From(uri, 9), "/")[1]

\* except Exception as e: raise RuntimeError(f"Database error: {str(e)}")
ReadResourceExcept(failedAt, msg, acq, calls) ==
    Outcome("read_resource", TRUE, "Database error: " \o msg, failedAt, acq, calls, TRUE,
            ExecuteFails)

\* the connection is asked for before the table name is looked at
AcquireAfterValidation_Always(rejected, probeFails, connectOk) ==
    get_connection(probeFails, connectOk)

\* the connection is asked for only once the table name has passed validation
AcquireAfterValidation(rejected, probeFails, connectOk) ==
    IF rejected THEN NotAcquired ELSE get_connection(probeFails, connectOk)

read_resource(uri, probeFails, connectOk, reply, fetchOk) ==
    IF ~StartsWith(uri, <<"m", "s", "s", "q", "l", ":", "/", "/">>)
    THEN Outcome("read_resource", TRUE, "Invalid URI scheme", "validate", NotAcquired, <<>>,
                 TRUE, ExecuteFails)
    ELSE LET safe_table == validate_table_name(TableOf(uri))
             acq == AcquireAfterValidation(safe_table.raised, probeFails, connectOk)
         IN IF safe_table.raised
            THEN ReadResourceExcept("sanitize", "Invalid table name", acq, acq.calls)
            ELSE IF acq.raised
            THEN ReadResourceExcept("acquire", acq.msg, acq, acq.calls)
            ELSE IF ~ExecuteOk(acq, reply)
            THEN ReadResourceExcept("execute", "execute failed", acq,
                                    Append(acq.calls, "execute:fail"))
            ELSE IF ~fetchOk
            THEN ReadResourceExcept("fetch", "fetch failed", acq,
                                    acq.calls \o <<"execute:ok", "fetch:fail">>)
            ELSE Outcome("read_resource", FALSE, FormatRowSet(reply.description, reply.rows),
                         "none", acq, acq.calls \o <<"execute:ok", "fetch:ok">>, TRUE, reply)

\* the uri of every listed table, f"mssql://{table[0]}/data"
ResourceUris(rows) == [i \in 1..Len(rows) |-> "mssql://" \o str(rows[i][1]) \o "/data"]

\* list_resources returns [] on any failure; text carries the uris, one a line
list_resources(probeFails, connectOk, reply, fetchOk) ==
    LET acq == get_connection(probeFails, connectOk)
    IN IF acq.raised
       THEN Outcome("list_resources", FALSE, "", "acquire", acq, acq.calls, TRUE, ExecuteFails)
       ELSE IF ~ExecuteOk(acq, reply)
       THEN Outcome("list_resources", FALSE, "", "execute", acq,
                    Append(acq.calls, "execute:fail"), TRUE, ExecuteFails)
       ELSE IF ~fetchOk
       THEN Outcome("list_resources", FALSE, "", "fetch", acq,
                    acq.calls \o <<"execute:ok", "fetch:fail">>, TRUE, reply)
       ELSE Outcome("list_resources", FALSE, Join(ResourceUris(reply.rows), "\n"), "none",
                    acq, acq.calls \o <<"execute:ok", "fetch:ok">>, TRUE, reply)

----------------------------------------------------------------------------
(* Spec: requests served one at a time, and the server dropping connections *)

Init ==
    /\ env \in BOOLEAN
    /\ table_name = <<>> /\ sanOut = NotRun
    /\ query = <<>> /\ clsOut = NotRun
    /\ ServerInit

Inputs(probeFails, connectOk, reply, fetchOk, commitOk) ==
    [probeFails |-> probeFails, connectOk |-> connectOk, reply |-> reply,
     fetchOk |-> fetchOk, commitOk |-> commitOk]

\* did the most recent call of get_connection fail to connect
ConnectFailed(rec) ==
    /\ rec.op # "none"
    /\ IF rec.acquire.called
       THEN \E i \in 1..Len(rec.acquire.calls) : rec.acquire.calls[i] = "connect:fail"
       ELSE rec.pre.connectFailed

Made(calls, kinds) == \E i \in 1..Len(calls) : calls[i] \in kinds

\* an answer of the engine is drawn only for a call the request makes; for a
\* call it does not make, the answer is fixed
AnswersUsed(out, in) ==
    /\ in.probeFails => Made(out.calls, {"probe:fail"})
    /\ ~in.connectOk => Made(out.calls, {"connect:fail"})
    /\ in.reply # ExecuteFails => Made(out.calls, {"execute:ok", "execute:fail"})
    /\ ~in.fetchOk => Made(out.calls, {"fetch:fail"})
    /\ ~in.commitOk => Made(out.calls, {"commit:fail"})

\* a request runs to completion; last keeps what it did, its arguments, the
\* engine's answers, and what the stored handle and the engine's handles were
\* before it
Serve(out, args, in) ==
    /\ reqNo < MaxRequests
    /\ AnswersUsed(out, in)
    /\ reqNo' = reqNo + 1
    /\ _conn' = out.conn
    /\ status' = out.status
    /\ pending' = out.pending
    /\ last' = out @@ [pre |-> [conn |-> _conn, status |-> status, pending |-> pending,
                                connectFailed |-> ConnectFailed(last)],
                       args |-> args, in |-> in]
    /\ UNCHANGED <<pureVars, env>>

CallTool ==
    \E name \in ToolNames, q \in Queries, probeFails \in BOOLEAN, connectOk \in BOOLEAN,
       fetchOk \in BOOLEAN, commitOk \in BOOLEAN :
        \E reply \in q.replies :
            Serve(call_tool(name, q, probeFails, connectOk, reply, fetchOk, commitOk),
                  [name |-> name, text |-> q.text],
                  Inputs(probeFails, connectOk, reply, fetchOk, commitOk))

ReadResource ==
    \E uri \in Uris, probeFails \in BOOLEAN, connectOk \in BOOLEAN, fetchOk \in BOOLEAN :
        \E reply \in UsersRows \cup {ExecuteFails} :
            Serve(read_resource(uri, probeFails, connectOk, reply, fetchOk),
                  [name |-> "", text |-> uri],
                  Inputs(probeFails, connectOk, reply, fetchOk, TRUE))

ListResources ==
    \E probeFails \in BOOLEAN, connectOk \in BOOLEAN, fetchOk \in BOOLEAN :
        \E reply \in TablesRows \cup {ExecuteFails} :
            Serve(list_resources(probeFails, connectOk, reply, fetchOk),
                  [name |-> "", text |-> <<>>],
                  Inputs(probeFails, connectOk, reply, fetchOk, TRUE))

\* the server side or the network ends a live connection between requests;
\* its open transaction is rolled back
Drop ==
    \E h \in 1..Len(status) :
        /\ status[h] = "open"
        /\ status' = [status EXCEPT ![h] = "dropped"]
        /\ pending' = [pending EXCEPT ![h] = {}]
        /\ UNCHANGED <<pureVars, env, _conn, reqNo, last>>

Next == CallTool \/ ReadResource \/ ListResources \/ Drop

Spec == Init /\ [][Next]_vars

----------------------------------------------------------------------------
(* C6 *)

\* one or two non-empty parts over letters, digits and underscore, separated
\* by a single dot
WellFormedId(t) ==
    LET parts == Split(t, ".")
    IN Len(parts) \in {1, 2} /\ \A i \in 1..Len(parts) : IsWord(parts[i])

\* each part bracketed on its own, rejoined with the dot
Bracketed(t) ==
    LET parts == Split(t, ".")
    IN JoinChars([i \in 1..Len(parts) |-> <<"[">> \o parts[i] \o <<"]">>], <<".">>)

\* C6: a well-formed identifier is returned bracketed part by part, and every
\* other string is rejected with the error and yields no SQL text.
C6_SanitizeTotal ==
    sanOut.ran =>
        IF WellFormedId(table_name)
        THEN ~sanOut.result.raised /\ sanOut.result.value = Bracketed(table_name)
        ELSE sanOut.result.raised /\ sanOut.result.value = <<>>

\* the accepting half of C6 alone
C6_AcceptsWellFormed ==
    (sanOut.ran /\ WellFormedId(table_name)) =>
        ~sanOut.result.raised /\ sanOut.result.value = Bracketed(table_name)

\* the rejecting half of C6 for strings that do not end in a line break
C6_RejectsOthers ==
    (sanOut.ran /\ ~WellFormedId(table_name)
        /\ (Len(table_name) = 0 \/ table_name[Len(table_name)] # "\n")) =>
        sanOut.result.raised

----------------------------------------------------------------------------
(* C7 *)

\* the statement after a leading block comment, when it starts with one
AfterBlockPrefix(q) == From(q, 3 + Find(From(q, 3), <<"*", "/">>) + 1)
HasBlockPrefix(q) == StartsWith(q, <<"/", "*">>) /\ Find(From(q, 3), <<"*", "/">>) # 0

\* the statement after a leading line comment, when it starts with one
AfterLinePrefix(q) == From(q, Find(q, <<"\n">>) + 1)
HasLinePrefix(q) == StartsWith(q, <<"-", "-">>) /\ Find(q, <<"\n">>) # 0

\* position i of text t lies in a line comment: a "--" starts at or before it
\* on the same line
InLineComment(t, i) ==
    \E p \in 1..i :
        /\ p < Len(t) /\ t[p] = "-" /\ t[p + 1] = "-"
        /\ \A j \in p..i : t[j] # "\n"

RECURSIVE Keep(_, _)
Keep(t, i) ==
    IF i > Len(t) THEN <<>>
    ELSE (IF InLineComment(t, i) THEN <<>> ELSE <<t[i]>>) \o Keep(t, i + 1)

\* the first whitespace-delimited token of the text left once block comments,
\* then line comments, are removed
EffectiveFirstToken(q) ==
    LET t == lstrip(Keep(SubBlockComments(q), 1))
    IN FirstWord(t)

IsSelectWord(w) ==
    /\ Len(w) = 6
    /\ \A i \in 1..6 : w[i] \in {<<"S", "E", "L", "E", "C", "T">>[i], <<"s", "e", "l", "e", "c", "t">>[i]}

HasNoComment(q) ==
    /\ Find(q, <<"-", "-">>) = 0
    /\ \A i \in 1..Len(q) : ~HasBlockPrefix(From(q, i))

\* the text begins, after optional whitespace, with the token SELECT
StartsWithSelect(r) == IsSelectWord(FirstWord(lstrip(r)))

\* C7: the statement is read-only exactly when its first token after comment
\* removal is SELECT in any letter case; a comment-only prefix before SELECT
\* does not change the result; a statement without comments is left unchanged
\* by the removal.
C7_Classify ==
    clsOut.ran =>
        /\ clsOut.select <=> IsSelectWord(EffectiveFirstToken(query))
        /\ HasNoComment(query) => clsOut.cleaned = query
        /\ (HasBlockPrefix(query) /\ StartsWithSelect(AfterBlockPrefix(query))) => clsOut.select
        /\ (HasLinePrefix(query) /\ StartsWithSelect(AfterLinePrefix(query))) => clsOut.select

\* the parts of C7 other than the line-comment prefix
C7_TokenRule ==
    clsOut.ran =>
        /\ clsOut.select <=> IsSelectWord(EffectiveFirstToken(query))
        /\ HasNoComment(query) => clsOut.cleaned = query
        /\ (HasBlockPrefix(query) /\ StartsWithSelect(AfterBlockPrefix(query))) => clsOut.select

----------------------------------------------------------------------------
(* Claims about the connection manager and the handlers *)

Served == last.op # "none"

Acquiring == Served /\ last.acquire.called

\* the connection attempts get_connection made in the last request
Attempts ==
    Cardinality({i \in 1..Len(last.acquire.calls) :
                    last.acquire.calls[i] \in {"connect:ok", "connect:fail"}})

Called(what) == \E i \in 1..Len(last.calls) : last.calls[i] = what

LiveHandles == {h \in 1..Len(status) : status[h] = "open"}

\* the stored handle, before the last request, was one the engine still served
StoredWasLive == last.pre.conn # 0 /\ last.pre.status[last.pre.conn] = "open"

StoredWasDropped == last.pre.conn # 0 /\ last.pre.status[last.pre.conn] = "dropped"

\* the handle the last get_connection returned is a new one, live on return
ReturnedFresh ==
    /\ ~last.acquire.raised
    /\ last.acquire.handle = Len(last.pre.status) + 1
    /\ last.status[last.acquire.handle] = "open"
    /\ last.conn = last.acquire.handle

\* C1: at most one handle opened by the connection manager is live, and it is
\* the stored one; a replacement is opened only once the previous handle is
\* closed or dropped.
C1_AtMostOneLiveHandle ==
    /\ Cardinality(LiveHandles) <= 1
    /\ \A h \in LiveHandles : h = _conn

\* a probe failed on a handle the engine still served; it was closed and replaced
C1_Witness ==
    /\ Acquiring /\ StoredWasLive
    /\ last.acquire.calls = <<"probe:fail", "close:ok", "connect:ok">>
    /\ Len(status) >= 2

\* C2: when the stored handle was dropped, the next get_connection probes,
\* fails the probe, makes its one attempt and, the engine being reachable,
\* returns a fresh live handle, so the request does not fail to acquire or
\* to submit on account of the drop; and after a get_connection that failed
\* to connect, the next one attempts again and succeeds if the engine is
\* reachable.
C2_Recovery ==
    /\ (Acquiring /\ StoredWasDropped) =>
          /\ last.acquire.calls[1] = "probe:fail"
          /\ Attempts = 1
          /\ last.in.connectOk =>
                /\ ReturnedFresh
                /\ last.failedAt # "acquire"
                /\ last.in.reply.ok => last.failedAt # "execute"
    /\ (Acquiring /\ last.pre.connectFailed) =>
          /\ Attempts = 1
          /\ last.in.connectOk => (ReturnedFresh /\ last.failedAt # "acquire")

\* a request found the stored handle dropped and was answered from a new one
C2_Witness ==
    /\ Acquiring /\ StoredWasDropped
    /\ last.in.connectOk /\ last.failedAt = "none" /\ last.op = "call_tool"

\* the rule of C3 on the number of connection attempts
AttemptRule ==
    IF StoredWasLive /\ ~last.in.probeFails
    THEN Attempts = 0 /\ ~last.acquire.raised /\ last.acquire.handle = last.pre.conn
         /\ last.conn = last.pre.conn
    ELSE Attempts = 1

\* C3 as stated: every get_connection call makes no attempt when a handle is
\* stored and its probe succeeds, returning that handle, and exactly one
\* attempt otherwise.
C3_AttemptsAsStated == Acquiring => AttemptRule

\* C3 amended: the rule holds of every call that passes the credential check;
\* a call that fails the check makes no attempt.
C3_Attempts ==
    /\ (Acquiring /\ env) => AttemptRule
    /\ (Acquiring /\ ~env) => (Attempts = 0 /\ last.acquire.raised)

\* a call that reused the stored handle after one that had opened it
C3_Witness ==
    /\ Acquiring /\ StoredWasLive
    /\ last.acquire.calls = <<"probe:ok">>
    /\ reqNo >= 2

ErrorTexts ==
    {"Error executing query: " \o m :
        m \in {"MSSQL_USER and MSSQL_PASSWORD are required for SQL Authentication",
               "connection failed", "execute failed", "fetch failed", "commit failed",
               "'NoneType' object is not iterable", "sequence item: expected str instance"}}

\* a step of the last request failed: acquiring, submitting, fetching, committing
StepFailed ==
    \/ last.acquire.raised
    \/ Called("execute:fail") \/ Called("fetch:fail") \/ Called("commit:fail")

\* C4 as stated: no call of call_tool raises to the dispatch layer.
C4_NeverRaisesAsStated ==
    (Served /\ last.op = "call_tool") =>
        /\ ~last.raised
        /\ StepFailed => last.text \in ErrorTexts

\* C4 amended: a call with the configured tool name and a non-empty query never
\* raises; a failure to acquire, submit, fetch or commit comes back as the text
\* "Error executing query: <message>".
C4_FailuresReturned ==
    (Served /\ last.op = "call_tool" /\ last.args.name = get_command /\ last.args.text # <<>>) =>
        /\ ~last.raised
        /\ StepFailed => last.text \in ErrorTexts

\* a reconnect failed inside call_tool and came back as text
C4_Witness ==
    /\ Served /\ last.op = "call_tool"
    /\ last.acquire.calls = <<"probe:fail", "close:ok", "connect:fail">>
    /\ ~last.raised /\ last.text = "Error executing query: connection failed"

\* the uri names a table the sanitizer rejects
TableRejected ==
    /\ last.op = "read_resource"
    /\ StartsWith(last.args.text, <<"m", "s", "s", "q", "l", ":", "/", "/">>)
    /\ validate_table_name(TableOf(last.args.text)).raised

NoRoundTrip ==
    /\ last.calls = <<>>
    /\ last.conn = last.pre.conn
    /\ last.status = last.pre.status
    /\ last.pending = last.pre.pending

C5_WitnessCredentials == Acquiring /\ ~env /\ last.acquire.raised

\* items joined by commas, built from the left
RECURSIVE CommaLine(_)
CommaLine(items) ==
    IF Len(items) = 0 THEN ""
    ELSE IF Len(items) = 1 THEN items[1]
    ELSE CommaLine(SubSeq(items, 1, Len(items) - 1)) \o "," \o items[Len(items)]

CellText(c) == IF c.t = "int" THEN ToString(c.i) ELSE IF c.t = "null" THEN "None" ELSE c.s

\* the lines of rows k.. each preceded by a line break
RECURSIVE RowLines(_, _)
RowLines(rows, k) ==
    IF k > Len(rows) THEN ""
    ELSE "\n" \o CommaLine([j \in 1..Len(rows[k]) |-> CellText(rows[k][j])]) \o RowLines(rows, k + 1)

\* the header line of column names, then one line per row in engine order
RowSetText(reply) == CommaLine(reply.description) \o RowLines(reply.rows, 1)

ReadOnlySucceeded ==
    /\ Served /\ last.op = "call_tool" /\ ~last.raised
    /\ is_select_query(last.args.text)
    /\ last.failedAt = "none"

\* C8 as stated: every read-only statement that executes successfully is
\* answered with the column names and all rows, all cells.
C8_RowSetAsStated == ReadOnlySucceeded => last.text = RowSetText(last.reply)

\* C8 amended: so is every such statement that does not mention
\* INFORMATION_SCHEMA.TABLES (in any letter case); one that does is answered
\* with "Tables_found" and the first cell of each row.
C8_RowSet ==
    /\ (ReadOnlySucceeded /\ ~Contains(Upper(last.args.text), INFORMATION_SCHEMA_TABLES)) =>
          last.text = RowSetText(last.reply)
    /\ (ReadOnlySucceeded /\ Contains(Upper(last.args.text), INFORMATION_SCHEMA_TABLES)) =>
          last.text = "Tables_found" \o RowLines([i \in 1..Len(last.reply.rows) |-> <<last.reply.rows[i][1]>>], 1)

\* the two-row, two-column scenario
C8_Witness == ReadOnlySucceeded /\ last.text = "Id,Name\n1,Alice\n2,Bob"

CommitCalls == {i \in 1..Len(last.calls) : last.calls[i] \in {"commit:ok", "commit:fail"}}

MutatingSubmitted ==
    /\ Served /\ last.op = "call_tool"
    /\ last.args.name = get_command
    /\ ~is_select_query(last.args.text)
    /\ Called("execute:ok")

\* exactly one commit, issued after the submission
OneCommitAfterSubmit ==
    /\ Cardinality(CommitCalls) = 1
    /\ \A i \in CommitCalls : i > 1 /\ last.calls[i - 1] = "execute:ok"

RowsAffectedText == "Query executed successfully. Rows affected: " \o ToString(last.reply.rowcount)

NoCommitWhenReadOnly ==
    (Served /\ last.op = "call_tool" /\ is_select_query(last.args.text)) => CommitCalls = {}

\* C9 as stated: a mutating statement whose submission succeeds is committed
\* exactly once and answered with the rows-affected text; a read-only one is
\* never committed.
C9_CommitAsStated ==
    /\ MutatingSubmitted => (OneCommitAfterSubmit /\ ~last.raised /\ last.text = RowsAffectedText)
    /\ NoCommitWhenReadOnly

\* C9 amended: the commit is issued exactly once after the submission; the
\* rows-affected text is the answer when that commit succeeds, and the error
\* text when it fails.
C9_Commit ==
    /\ MutatingSubmitted =>
          /\ OneCommitAfterSubmit /\ ~last.raised
          /\ Called("commit:ok") => last.text = RowsAffectedText
          /\ Called("commit:fail") => last.text = "Error executing query: commit failed"
    /\ NoCommitWhenReadOnly

\* the DELETE scenario
C9_Witness ==
    /\ MutatingSubmitted
    /\ last.text = "Query executed successfully. Rows affected: 1"
    /\ last.calls[Len(last.calls)] = "commit:ok"

\* C10: between requests no handle holds uncommitted changes of a request
\* that has returned.
C10_Isolation == \A h \in 1..Len(pending) : pending[h] = {}

====
